---- MODULE Spec2Model ----
(***************************************************************************)
(* Event Server (src/main.py): an in-memory request log REQUEST_LOG        *)
(* guarded by LOG_LOCK, written by the catch-all capture handler, emptied  *)
(* by POST /clear and read newest-first by GET /.                          *)
(*                                                                         *)
(* Every request is one process.  A handler is cut into steps at each      *)
(* point where another handler may run: the await of the request body and  *)
(* the acquire / release of the lock.  Steps of different requests         *)
(* interleave freely, as for handlers running on threads; the cooperative  *)
(* schedule of a single event loop is one of these interleavings.          *)
(*                                                                         *)
(* Spec      the three handlers of src/main.py, freely interleaved         *)
(* SpecView  GET / alone, over every log of up to MaxLog entries           *)
(* SpecLoop  the handlers as coroutines of one event loop                  *)
(* SpecLive  concurrent handlers under fair scheduling                     *)
(* SpecFeed  GET /events-feed, which src/main.py lacks, after the          *)
(*           specification                                                 *)
(***************************************************************************)
EXTENDS Integers, Sequences, FiniteSets, TLC

\* ---------------------------------------------------------------- bounds
NumReqs == 3          \* requests served in one behaviour
MaxTime == 0          \* now_ist_str() yields a stamp in 0..MaxTime
MaxLog  == 3          \* entries already in the log in SpecView and SpecFeed

Reqs  == 1..NumReqs
Times == 0..MaxTime

\* ------------------------------------------------------------- constants
\* methods of the api_route decorator of catch_all
Methods == {"GET", "POST", "PUT", "PATCH", "DELETE", "OPTIONS"}
\* methods whose body catch_all parses
BodyMethods == {"POST", "PUT", "PATCH"}
\* the full_path values catch_all does not log
Excluded == {<<>>, <<"clear">>}

\* URL paths, as "/" followed by the rest: "/", "/clear", "/foo"
Paths == {<<"/">>, <<"/", "clear">>, <<"/", "foo">>}

\* request bodies as sent: none, text that is not JSON, a JSON object
RawBodies == {"", "not-json", "{\"a\": 1}"}

\* ----------------------------------------------------------- JSON values
None == [t |-> "null"]
JStr(s) == [t |-> "str", s |-> s]
JNum(n) == [t |-> "num", n |-> n]
JObj(kv) == [t |-> "obj", kv |-> kv]
JArr(xs) == [t |-> "arr", xs |-> xs]
KV(k, v) == [k |-> k, v |-> v]

\* json.loads on the body bytes, as request.json() calls it
JsonLoads(raw) ==
    CASE raw = "{\"a\": 1}" -> [ok |-> TRUE, value |-> JObj(<<KV("a", JNum(1))>>)]
      [] raw = "{\"foo\": 1}" -> [ok |-> TRUE, value |-> JObj(<<KV("foo", JNum(1))>>)]
      [] raw = "{\"events\": \"not-a-list\"}" ->
            [ok |-> TRUE, value |-> JObj(<<KV("events", JStr("not-a-list"))>>)]
      [] raw = "{\"events\": [{\"a\": 1}, {\"b\": 2}]}" ->
            [ok |-> TRUE,
             value |-> JObj(<<KV("events", JArr(<<JObj(<<KV("a", JNum(1))>>),
                                                  JObj(<<KV("b", JNum(2))>>)>>))>>)]
      [] OTHER -> [ok |-> FALSE, msg |-> "Expecting value: line 1 column 1 (char 0)"]

\* body of the except branch of catch_all
ErrorMarker(msg) ==
    JObj(<<KV("_error", JStr("Invalid or no JSON body")), KV("detail", JStr(msg))>>)

\* mutant: a failed parse leaves data = None instead of the error marker
ParseBody_Swallow(raw) ==
    LET r == JsonLoads(raw) IN IF r.ok THEN r.value ELSE None

\* the try / except around request.json()
ParseBody(raw) ==
    LET r == JsonLoads(raw) IN IF r.ok THEN r.value ELSE ErrorMarker(r.msg)

\* now_ist_str(): the clock reading as a display string
now_ist_str(t) == ToString(t)

\* --------------------------------------------------------------- display
\* json.dumps(data, indent=2) as the sequence of its tokens (layout
\* whitespace left out)
RECURSIVE Dumps(_)
RECURSIVE DumpMembers(_)
RECURSIVE DumpItems(_)
DumpMembers(kv) ==
    IF kv = <<>> THEN <<>>
    ELSE <<"\"", Head(kv).k, "\"", ":">> \o Dumps(Head(kv).v)
         \o (IF Len(kv) > 1 THEN <<",">> ELSE <<>>) \o DumpMembers(Tail(kv))
DumpItems(xs) ==
    IF xs = <<>> THEN <<>>
    ELSE Dumps(Head(xs)) \o (IF Len(xs) > 1 THEN <<",">> ELSE <<>>) \o DumpItems(Tail(xs))
Dumps(v) ==
    CASE v.t = "null" -> <<"null">>
      [] v.t = "str"  -> <<"\"", v.s, "\"">>
      [] v.t = "num"  -> <<ToString(v.n)>>
      [] v.t = "obj"  -> <<"{">> \o DumpMembers(v.kv) \o <<"}">>
      [] v.t = "arr"  -> <<"[">> \o DumpItems(v.xs) \o <<"]">>

pretty_json(data) == Dumps(data)

\* html.escape on a token sequence
EscapeToken(c) ==
    CASE c = "&"  -> "&amp;"
      [] c = "<"  -> "&lt;"
      [] c = ">"  -> "&gt;"
      [] c = "\"" -> "&quot;"
      [] c = "'"  -> "&#x27;"
      [] OTHER    -> c
HtmlEscape(s) == [i \in 1..Len(s) |-> EscapeToken(s[i])]

\* one card of the page: the four escaped fields the f-string interpolates
Card(item) ==
    [ts         |-> HtmlEscape(<<item.timestamp>>),
     endpoint   |-> HtmlEscape(item.endpoint),
     method     |-> HtmlEscape(<<item.method>>),
     json_block |-> HtmlEscape(pretty_json(item.json))]

\* --------------------------------------------------------------- routing
\* mutant: the catch-all is declared before clear_logs and shadows it
Route_CatchAllFirst(m, p) ==
    IF m = "GET" /\ p = <<"/">> THEN "index" ELSE "catch_all"

\* mutant: the clear route is declared for every method
Route_ClearAnyMethod(m, p) ==
    IF m = "GET" /\ p = <<"/">> THEN "index"
    ELSE IF p = <<"/", "clear">> THEN "clear_logs"
    ELSE "catch_all"

\* the route table in declaration order: index, clear_logs, catch_all
Route(m, p) ==
    IF m = "GET" /\ p = <<"/">> THEN "index"
    ELSE IF m = "POST" /\ p = <<"/", "clear">> THEN "clear_logs"
    ELSE "catch_all"

\* the {full_path:path} parameter: the URL path without its leading "/"
FullPath(p) == Tail(p)

\* mutant: the acknowledgement omits the leading "/" of the endpoint
Ack_NoSlash(e) ==
    [code |-> 200, type |-> "json",
     content |-> [status |-> "ok",
                  received |-> [endpoint |-> Tail(e.endpoint), method |-> e.method]]]

\* the acknowledgement of catch_all
Ack(e) ==
    [code |-> 200, type |-> "json",
     content |-> [status |-> "ok",
                  received |-> [endpoint |-> e.endpoint, method |-> e.method]]]

\* ----------------------------------------------------------------- state
VARIABLES
    REQUEST_LOG,   \* the list of entries, oldest first
    LOG_LOCK,      \* TRUE while the threading.Lock is locked
    pc,            \* pc[r]: where request r's handler stands
    method,        \* method[r]: request.method
    path,          \* path[r]: the URL path
    body,          \* body[r]: the body bytes once request.json() read them
    entry,         \* entry[r]: the local `entry` of catch_all
    it,            \* it[r]: index of the reversed() iterator of index
    items_html,    \* items_html[r]: the local list of index
    resp,          \* resp[r]: the response returned
    appended,      \* requests that have executed their append (history)
    wiped,         \* requests whose append preceded a clear (history)
    wipedAtStart,  \* wipedAtStart[r]: wiped when request r began (history)
    lockOrder,     \* capture requests in the order they took the lock (history)
    snapshot       \* snapshot[r]: the copy of the log the event feed works on

vars == <<REQUEST_LOG, LOG_LOCK, pc, method, path, body, entry, it,
          items_html, resp, appended, wiped, wipedAtStart, lockOrder, snapshot>>

NoEntry == [unset |-> TRUE]
NoResp  == [unset |-> TRUE]

Handler(r) == Route(method[r], path[r])

Init ==
    /\ REQUEST_LOG = <<>>
    /\ LOG_LOCK = FALSE
    /\ pc = [r \in Reqs |-> "idle"]
    /\ method = [r \in Reqs |-> "-"]
    /\ path = [r \in Reqs |-> <<>>]
    /\ body = [r \in Reqs |-> "-"]
    /\ entry = [r \in Reqs |-> NoEntry]
    /\ it = [r \in Reqs |-> 0]
    /\ items_html = [r \in Reqs |-> <<>>]
    /\ resp = [r \in Reqs |-> NoResp]
    /\ appended = {}
    /\ wiped = {}
    /\ wipedAtStart = [r \in Reqs |-> {}]
    /\ lockOrder = <<>>
    /\ snapshot = [r \in Reqs |-> <<>>]

\* first step of each handler
Entry(h) ==
    CASE h = "index"      -> "idx_acquire"
      [] h = "clear_logs" -> "clr_acquire"
      [] h = "catch_all"  -> "ca_body"

\* A request arrives and is routed.  Requests are numbered in arrival order.
Dispatch(r) ==
    /\ pc[r] = "idle"
    /\ \A q \in Reqs : q < r => pc[q] # "idle"
    /\ \E m \in Methods, p \in Paths :
          /\ method' = [method EXCEPT ![r] = m]
          /\ path' = [path EXCEPT ![r] = p]
          /\ pc' = [pc EXCEPT ![r] = Entry(Route(m, p))]
    /\ wipedAtStart' = [wipedAtStart EXCEPT ![r] = wiped]
    /\ UNCHANGED <<REQUEST_LOG, LOG_LOCK, body, entry, it, items_html, resp,
                   appended, wiped,
                   lockOrder, snapshot>>

\* ------------------------------------------------------ lock and list ops
\* mutant: the handlers do not wait for the lock
CanAcquire_Always(lock) == TRUE

\* LOG_LOCK.acquire() goes through only when the lock is free
CanAcquire(lock) == ~lock

\* mutant: the log keeps only the two newest entries
ListAppend_Capped(log, e) ==
    IF Len(log) >= 2 THEN Append(Tail(log), e) ELSE Append(log, e)

\* mutant: the newest entry is put first
ListAppend_Front(log, e) == <<e>> \o log

\* REQUEST_LOG.append(entry)
ListAppend(log, e) == Append(log, e)

\* mutant: clear keeps the newest entry
ListClear_KeepLast(log) == IF log = <<>> THEN log ELSE <<log[Len(log)]>>

\* REQUEST_LOG.clear()
ListClear(log) == <<>>

\* mutant: the cursor starts one short and misses the newest entry
ReversedStart_SkipNewest(log) == IF Len(log) >= 1 THEN Len(log) - 1 ELSE 0

\* reversed(REQUEST_LOG): a cursor that starts at the last element and
\* yields while it points inside the list
ReversedStart(log) == Len(log)
ReversedHasNext(log, i) == i >= 1 /\ i <= Len(log)

\* ------------------------------------------------------------- catch_all
\* mutant: only the root path is left out
ShouldLog_RootOnly(full_path) == full_path # <<>>

\* the condition `full_path not in ("", "clear")`
ShouldLog(full_path) == full_path \notin Excluded

\* mutant: the endpoint is full_path without the "/" put back
BuildEntry_NoSlash(t, full_path, m, data, r) ==
    [timestamp |-> now_ist_str(t),
     endpoint  |-> full_path,
     method    |-> m,
     json      |-> data,
     rid       |-> r]

\* the dict literal assigned to `entry`; rid stands for the identity of the
\* dict object
BuildEntry(t, full_path, m, data, r) ==
    [timestamp |-> now_ist_str(t),
     endpoint  |-> <<"/">> \o full_path,
     method    |-> m,
     json      |-> data,
     rid       |-> r]

\* mutant: the body is parsed whatever the method
ReadData_Always(m, raw) == ParseBody(raw)

\* data = None; for POST, PUT, PATCH the awaited request.json() or the
\* error marker
ReadData(m, raw) == IF m \in BodyMethods THEN ParseBody(raw) ELSE None

\* lines 147-159: read the body where the method carries one, build entry
CatchAllBody(r) ==
    /\ pc[r] = "ca_body"
    /\ \E raw \in (IF method[r] \in BodyMethods THEN RawBodies ELSE {"-"}),
          t \in Times :
          /\ body' = [body EXCEPT ![r] = raw]
          /\ entry' = [entry EXCEPT ![r] =
                BuildEntry(t, FullPath(path[r]), method[r], ReadData(method[r], raw), r)]
    /\ pc' = [pc EXCEPT ![r] = "ca_check"]
    /\ UNCHANGED <<REQUEST_LOG, LOG_LOCK, method, path, it, items_html, resp,
                   appended, wiped, wipedAtStart,
                   lockOrder, snapshot>>

\* line 162 false: "/" and "/clear" are not logged
CatchAllSkip(r) ==
    /\ pc[r] = "ca_check"
    /\ ~ShouldLog(FullPath(path[r]))
    /\ pc' = [pc EXCEPT ![r] = "ca_return"]
    /\ UNCHANGED <<REQUEST_LOG, LOG_LOCK, method, path, body, entry, it,
                   items_html, resp, appended, wiped, wipedAtStart,
                   lockOrder, snapshot>>

\* lines 162-163: with LOG_LOCK
CatchAllAcquire(r) ==
    /\ pc[r] = "ca_check"
    /\ ShouldLog(FullPath(path[r]))
    /\ CanAcquire(LOG_LOCK)
    /\ LOG_LOCK' = TRUE
    /\ lockOrder' = Append(lockOrder, r)
    /\ pc' = [pc EXCEPT ![r] = "ca_append"]
    /\ UNCHANGED <<REQUEST_LOG, method, path, body, entry, it, items_html,
                   resp, appended, wiped, wipedAtStart,
                   snapshot>>

\* line 164
CatchAllAppend(r) ==
    /\ pc[r] = "ca_append"
    /\ REQUEST_LOG' = ListAppend(REQUEST_LOG, entry[r])
    /\ appended' = appended \cup {r}
    /\ pc' = [pc EXCEPT ![r] = "ca_release"]
    /\ UNCHANGED <<LOG_LOCK, method, path, body, entry, it, items_html, resp,
                   wiped, wipedAtStart,
                   lockOrder, snapshot>>

\* mutant: catch_all leaves its block without releasing the lock
CatchAllRelease_Leak(r) ==
    /\ pc[r] = "ca_release"
    /\ pc' = [pc EXCEPT ![r] = "ca_return"]
    /\ UNCHANGED <<REQUEST_LOG, LOG_LOCK, method, path, body, entry, it,
                   items_html, resp, appended, wiped, wipedAtStart,
                   lockOrder, snapshot>>

\* end of the with block
CatchAllRelease(r) ==
    /\ pc[r] = "ca_release"
    /\ LOG_LOCK' = FALSE
    /\ pc' = [pc EXCEPT ![r] = "ca_return"]
    /\ UNCHANGED <<REQUEST_LOG, method, path, body, entry, it, items_html,
                   resp, appended, wiped, wipedAtStart,
                   lockOrder, snapshot>>

\* lines 167-173
CatchAllReturn(r) ==
    /\ pc[r] = "ca_return"
    /\ resp' = [resp EXCEPT ![r] = Ack(entry[r])]
    /\ pc' = [pc EXCEPT ![r] = "done"]
    /\ UNCHANGED <<REQUEST_LOG, LOG_LOCK, method, path, body, entry, it,
                   items_html, appended, wiped, wipedAtStart,
                   lockOrder, snapshot>>

\* ----------------------------------------------------------------- index
\* lines 69-72: items_html = [], with LOG_LOCK, reversed(REQUEST_LOG)
IndexAcquire(r) ==
    /\ pc[r] = "idx_acquire"
    /\ CanAcquire(LOG_LOCK)
    /\ LOG_LOCK' = TRUE
    /\ it' = [it EXCEPT ![r] = ReversedStart(REQUEST_LOG)]
    /\ pc' = [pc EXCEPT ![r] = "idx_loop"]
    /\ UNCHANGED <<REQUEST_LOG, method, path, body, entry, items_html, resp,
                   appended, wiped, wipedAtStart,
                   lockOrder, snapshot>>

\* mutant: the loop takes each item out of the log as it formats it
IndexFormat_Pop(r) ==
    /\ pc[r] = "idx_loop"
    /\ ReversedHasNext(REQUEST_LOG, it[r])
    /\ items_html' = [items_html EXCEPT ![r] = Append(@, Card(REQUEST_LOG[it[r]]))]
    /\ REQUEST_LOG' = SubSeq(REQUEST_LOG, 1, it[r] - 1)
    /\ it' = [it EXCEPT ![r] = @ - 1]
    /\ UNCHANGED <<LOG_LOCK, pc, method, path, body, entry, resp,
                   appended, wiped, wipedAtStart, lockOrder, snapshot>>

\* lines 72-88: one turn of the loop formats one item into a card
IndexFormat(r) ==
    /\ pc[r] = "idx_loop"
    /\ ReversedHasNext(REQUEST_LOG, it[r])
    /\ items_html' = [items_html EXCEPT ![r] = Append(@, Card(REQUEST_LOG[it[r]]))]
    /\ it' = [it EXCEPT ![r] = @ - 1]
    /\ UNCHANGED <<REQUEST_LOG, LOG_LOCK, pc, method, path, body, entry, resp,
                   appended, wiped, wipedAtStart,
                   lockOrder, snapshot>>

\* the loop is exhausted and the with block ends
IndexRelease(r) ==
    /\ pc[r] = "idx_loop"
    /\ ~ReversedHasNext(REQUEST_LOG, it[r])
    /\ LOG_LOCK' = FALSE
    /\ pc' = [pc EXCEPT ![r] = "idx_render"]
    /\ UNCHANGED <<REQUEST_LOG, method, path, body, entry, it, items_html,
                   resp, appended, wiped, wipedAtStart,
                   lockOrder, snapshot>>

\* lines 90-92: the cards, or the placeholder when there is none
PageBody(items) ==
    IF items # <<>> THEN items
    ELSE <<[placeholder |-> "No requests yet. Send a POST request to any endpoint."]>>

\* lines 90-134
IndexRender(r) ==
    /\ pc[r] = "idx_render"
    /\ resp' = [resp EXCEPT ![r] =
          [code |-> 200, type |-> "html", content |-> [body |-> PageBody(items_html[r])]]]
    /\ pc' = [pc EXCEPT ![r] = "done"]
    /\ UNCHANGED <<REQUEST_LOG, LOG_LOCK, method, path, body, entry, it,
                   items_html, appended, wiped, wipedAtStart,
                   lockOrder, snapshot>>

\* ------------------------------------------------------------ clear_logs
\* line 139
ClearAcquire(r) ==
    /\ pc[r] = "clr_acquire"
    /\ CanAcquire(LOG_LOCK)
    /\ LOG_LOCK' = TRUE
    /\ pc' = [pc EXCEPT ![r] = "clr_clear"]
    /\ UNCHANGED <<REQUEST_LOG, method, path, body, entry, it, items_html,
                   resp, appended, wiped, wipedAtStart,
                   lockOrder, snapshot>>

\* line 140
ClearClear(r) ==
    /\ pc[r] = "clr_clear"
    /\ REQUEST_LOG' = ListClear(REQUEST_LOG)
    /\ wiped' = wiped \cup appended
    /\ pc' = [pc EXCEPT ![r] = "clr_release"]
    /\ UNCHANGED <<LOG_LOCK, method, path, body, entry, it, items_html, resp,
                   appended, wipedAtStart,
                   lockOrder, snapshot>>

\* end of the with block
ClearRelease(r) ==
    /\ pc[r] = "clr_release"
    /\ LOG_LOCK' = FALSE
    /\ pc' = [pc EXCEPT ![r] = "clr_return"]
    /\ UNCHANGED <<REQUEST_LOG, method, path, body, entry, it, items_html,
                   resp, appended, wiped, wipedAtStart,
                   lockOrder, snapshot>>

\* line 141
ClearReturn(r) ==
    /\ pc[r] = "clr_return"
    /\ resp' = [resp EXCEPT ![r] =
          [code |-> 303, type |-> "redirect", content |-> [url |-> <<"/">>]]]
    /\ pc' = [pc EXCEPT ![r] = "done"]
    /\ UNCHANGED <<REQUEST_LOG, LOG_LOCK, method, path, body, entry, it,
                   items_html, appended, wiped, wipedAtStart,
                   lockOrder, snapshot>>

\* --------------------------------------------------------- specification
Step(r) ==
    \/ Dispatch(r)
    \/ CatchAllBody(r)
    \/ CatchAllSkip(r)
    \/ CatchAllAcquire(r)
    \/ CatchAllAppend(r)
    \/ CatchAllRelease(r)
    \/ CatchAllReturn(r)
    \/ IndexAcquire(r)
    \/ IndexFormat(r)
    \/ IndexRelease(r)
    \/ IndexRender(r)
    \/ ClearAcquire(r)
    \/ ClearClear(r)
    \/ ClearRelease(r)
    \/ ClearReturn(r)

Next == \E r \in Reqs : Step(r)

Spec == Init /\ [][Next]_vars

\* ------------------------------------------------- the read path alone
\* SpecView: the log holds any entries catch_all can have left (requests
\* served earlier, rid 0) and the requests of ViewReqs are GET / requests
\* about to run index.
ViewReqs == {1, 2}

PastData(m) == IF m \in BodyMethods THEN {ParseBody(raw) : raw \in RawBodies} ELSE {None}

PastEntries ==
    UNION {{BuildEntry(t, <<"foo">>, m, d, 0) : t \in Times, d \in PastData(m)} : m \in Methods}

InitView ==
    /\ REQUEST_LOG \in UNION {[1..n -> PastEntries] : n \in 0..MaxLog}
    /\ LOG_LOCK = FALSE
    /\ pc = [r \in Reqs |-> IF r \in ViewReqs THEN Entry(Route("GET", <<"/">>)) ELSE "idle"]
    /\ method = [r \in Reqs |-> IF r \in ViewReqs THEN "GET" ELSE "-"]
    /\ path = [r \in Reqs |-> IF r \in ViewReqs THEN <<"/">> ELSE <<>>]
    /\ body = [r \in Reqs |-> "-"]
    /\ entry = [r \in Reqs |-> NoEntry]
    /\ it = [r \in Reqs |-> 0]
    /\ items_html = [r \in Reqs |-> <<>>]
    /\ resp = [r \in Reqs |-> NoResp]
    /\ appended = {}
    /\ wiped = {}
    /\ wipedAtStart = [r \in Reqs |-> {}]
    /\ lockOrder = <<>>
    /\ snapshot = [r \in Reqs |-> <<>>]

NextView ==
    \E r \in Reqs :
        \/ IndexAcquire(r)
        \/ IndexFormat(r)
        \/ IndexRelease(r)
        \/ IndexRender(r)

SpecView == InitView /\ [][NextView]_vars

\* ------------------------------------------------- one event loop thread
\* SpecLoop: the handlers are coroutines of one event loop.  A coroutine
\* keeps the loop until it returns or reaches an await; only then does the
\* loop start or resume another one.

\* mutant: a second await sits between the acquire and the append
AwaitsAt_InLock(p, m) == (p = "ca_body" /\ m \in BodyMethods) \/ p = "ca_append"

\* the handler's next statement is an await: `await request.json()`, which
\* catch_all reaches only for POST, PUT and PATCH
AwaitsAt(p, m) == p = "ca_body" /\ m \in BodyMethods

\* request q does not occupy the loop
Parked(q) == pc[q] \in {"idle", "done"} \/ AwaitsAt(pc[q], method[q])

\* the loop can run request r
OnLoop(r) == \A q \in Reqs \ {r} : Parked(q)

LoopNext ==
    \E r \in Reqs :
        \/ OnLoop(r) /\ Dispatch(r)
        \/ OnLoop(r) /\ CatchAllBody(r)
        \/ OnLoop(r) /\ CatchAllSkip(r)
        \/ OnLoop(r) /\ CatchAllAcquire(r)
        \/ OnLoop(r) /\ CatchAllAppend(r)
        \/ OnLoop(r) /\ CatchAllRelease(r)
        \/ OnLoop(r) /\ CatchAllReturn(r)
        \/ OnLoop(r) /\ IndexAcquire(r)
        \/ OnLoop(r) /\ IndexFormat(r)
        \/ OnLoop(r) /\ IndexRelease(r)
        \/ OnLoop(r) /\ IndexRender(r)
        \/ OnLoop(r) /\ ClearAcquire(r)
        \/ OnLoop(r) /\ ClearClear(r)
        \/ OnLoop(r) /\ ClearRelease(r)
        \/ OnLoop(r) /\ ClearReturn(r)

SpecLoop == Init /\ [][LoopNext]_vars

\* ------------------------------------------------- concurrent requests
\* SpecLive: NumReqs requests have arrived together, each one of the kinds
\* of LiveKinds, and their handlers run to the end.  A handler that can take
\* a step eventually takes it, except that the body a POST, PUT or PATCH
\* handler awaits may never come.
LiveKinds ==
    {<<"GET", <<"/">>>>, <<"POST", <<"/", "clear">>>>, <<"POST", <<"/", "foo">>>>,
     <<"GET", <<"/", "foo">>>>, <<"DELETE", <<"/", "clear">>>>}

InitLive ==
    /\ REQUEST_LOG = <<>>
    /\ LOG_LOCK = FALSE
    /\ \E k \in [Reqs -> LiveKinds] :
          /\ method = [r \in Reqs |-> k[r][1]]
          /\ path = [r \in Reqs |-> k[r][2]]
          /\ pc = [r \in Reqs |-> Entry(Route(k[r][1], k[r][2]))]
    /\ body = [r \in Reqs |-> "-"]
    /\ entry = [r \in Reqs |-> NoEntry]
    /\ it = [r \in Reqs |-> 0]
    /\ items_html = [r \in Reqs |-> <<>>]
    /\ resp = [r \in Reqs |-> NoResp]
    /\ appended = {}
    /\ wiped = {}
    /\ wipedAtStart = [r \in Reqs |-> {}]
    /\ lockOrder = <<>>
    /\ snapshot = [r \in Reqs |-> <<>>]

NextLive ==
    \E r \in Reqs :
        \/ CatchAllBody(r)
        \/ CatchAllSkip(r)
        \/ CatchAllAcquire(r)
        \/ CatchAllAppend(r)
        \/ CatchAllRelease(r)
        \/ CatchAllReturn(r)
        \/ IndexAcquire(r)
        \/ IndexFormat(r)
        \/ IndexRelease(r)
        \/ IndexRender(r)
        \/ ClearAcquire(r)
        \/ ClearClear(r)
        \/ ClearRelease(r)
        \/ ClearReturn(r)

\* the steps of request r that need nothing from the client
Proceed(r) ==
    \/ ~AwaitsAt(pc[r], method[r]) /\ CatchAllBody(r)
    \/ CatchAllSkip(r)
    \/ CatchAllAcquire(r)
    \/ CatchAllAppend(r)
    \/ CatchAllRelease(r)
    \/ CatchAllReturn(r)
    \/ IndexAcquire(r)
    \/ IndexFormat(r)
    \/ IndexRelease(r)
    \/ IndexRender(r)
    \/ ClearAcquire(r)
    \/ ClearClear(r)
    \/ ClearRelease(r)
    \/ ClearReturn(r)

SpecLive == InitLive /\ [][NextLive]_vars /\ \A r \in Reqs : WF_vars(Proceed(r))

\* ------------------------------------------------------- the event feed
\* GET /events-feed and its flattener, after sections 4.4 and 6 of the
\* specification: the handler copies the log under the lock, releases it and
\* returns {"events": [...]} computed from the copy.

\* the value of key k of object v: the last member with that key
Member(v, k) ==
    LET I == {i \in 1..Len(v.kv) : v.kv[i].k = k} IN
    v.kv[CHOOSE i \in I : \A j \in I : j <= i].v

HasMember(v, k) == v.t = "obj" /\ \E i \in 1..Len(v.kv) : v.kv[i].k = k

\* d[k] = x on a copy of the members of a dict
SetMember(kv, k, x) ==
    IF \E i \in 1..Len(kv) : kv[i].k = k
    THEN [i \in 1..Len(kv) |-> IF kv[i].k = k THEN KV(k, x) ELSE kv[i]]
    ELSE Append(kv, KV(k, x))

\* the elements an entry contributes: those of body.events when the body is
\* an object and events is an array
EventsOf(e) ==
    IF HasMember(e.json, "events") /\ Member(e.json, "events").t = "arr"
    THEN Member(e.json, "events").xs
    ELSE <<>>

\* a deep copy of the element with the two provenance fields attached
Annotate(ev, e) ==
    JObj(SetMember(SetMember(ev.kv, "_received_at", JStr(e.timestamp)),
                   "_source_endpoint", JStr(e.endpoint)))

\* mutant: the newest entry is flattened first
RECURSIVE Flatten_NewestFirst(_)
Flatten_NewestFirst(entries) ==
    IF entries = <<>> THEN <<>>
    ELSE LET e == entries[Len(entries)] IN
         [i \in 1..Len(EventsOf(e)) |-> Annotate(EventsOf(e)[i], e)]
             \o Flatten_NewestFirst(SubSeq(entries, 1, Len(entries) - 1))

\* the flattener: entries oldest first, the events of each in array order
RECURSIVE Flatten(_)
Flatten(entries) ==
    IF entries = <<>> THEN <<>>
    ELSE LET e == Head(entries) IN
         [i \in 1..Len(EventsOf(e)) |-> Annotate(EventsOf(e)[i], e)]
             \o Flatten(Tail(entries))

FeedAcquire(r) ==
    /\ pc[r] = "feed_acquire"
    /\ CanAcquire(LOG_LOCK)
    /\ LOG_LOCK' = TRUE
    /\ pc' = [pc EXCEPT ![r] = "feed_copy"]
    /\ UNCHANGED <<REQUEST_LOG, method, path, body, entry, it, items_html,
                   resp, appended, wiped, wipedAtStart, lockOrder, snapshot>>

FeedCopy(r) ==
    /\ pc[r] = "feed_copy"
    /\ snapshot' = [snapshot EXCEPT ![r] = REQUEST_LOG]
    /\ pc' = [pc EXCEPT ![r] = "feed_release"]
    /\ UNCHANGED <<REQUEST_LOG, LOG_LOCK, method, path, body, entry, it,
                   items_html, resp, appended, wiped, wipedAtStart, lockOrder>>

FeedRelease(r) ==
    /\ pc[r] = "feed_release"
    /\ LOG_LOCK' = FALSE
    /\ pc' = [pc EXCEPT ![r] = "feed_return"]
    /\ UNCHANGED <<REQUEST_LOG, method, path, body, entry, it, items_html,
                   resp, appended, wiped, wipedAtStart, lockOrder, snapshot>>

\* the events of entry e with the provenance fields written into them
AnnotatedInPlace(e) ==
    IF EventsOf(e) = <<>> THEN e
    ELSE [e EXCEPT !.json =
            JObj(SetMember(e.json.kv, "events",
                 JArr([i \in 1..Len(EventsOf(e)) |-> Annotate(EventsOf(e)[i], e)])))]

\* mutant: the provenance fields are attached to the stored events
\* themselves, with no copy
FeedReturn_InPlace(r) ==
    /\ pc[r] = "feed_return"
    /\ resp' = [resp EXCEPT ![r] =
          [code |-> 200, type |-> "json", content |-> [events |-> Flatten(snapshot[r])]]]
    /\ REQUEST_LOG' = [i \in 1..Len(REQUEST_LOG) |-> AnnotatedInPlace(REQUEST_LOG[i])]
    /\ pc' = [pc EXCEPT ![r] = "done"]
    /\ UNCHANGED <<LOG_LOCK, method, path, body, entry, it, items_html,
                   appended, wiped, wipedAtStart, lockOrder, snapshot>>

FeedReturn(r) ==
    /\ pc[r] = "feed_return"
    /\ resp' = [resp EXCEPT ![r] =
          [code |-> 200, type |-> "json", content |-> [events |-> Flatten(snapshot[r])]]]
    /\ pc' = [pc EXCEPT ![r] = "done"]
    /\ UNCHANGED <<REQUEST_LOG, LOG_LOCK, method, path, body, entry, it,
                   items_html, appended, wiped, wipedAtStart, lockOrder, snapshot>>

\* SpecFeed: the log holds any entries catch_all can have left for the
\* bodies of FeedRawBodies, and the requests of FeedReqs are GET
\* /events-feed requests about to run.
FeedReqs == {1, 2}
FeedTimes == {0, 1}
FeedRawBodies ==
    {"{\"foo\": 1}", "{\"events\": \"not-a-list\"}", "{\"events\": [{\"a\": 1}, {\"b\": 2}]}"}

FeedEntries ==
    UNION {{BuildEntry(t, fp, "POST", ReadData("POST", raw), 0) : raw \in FeedRawBodies}
           \cup {BuildEntry(t, fp, "GET", ReadData("GET", "-"), 0)}
              : t \in FeedTimes, fp \in {<<"hook">>, <<"foo">>}}

InitFeed ==
    /\ REQUEST_LOG \in UNION {[1..n -> FeedEntries] : n \in 0..MaxLog}
    /\ LOG_LOCK = FALSE
    /\ pc = [r \in Reqs |-> IF r \in FeedReqs THEN "feed_acquire" ELSE "idle"]
    /\ method = [r \in Reqs |-> IF r \in FeedReqs THEN "GET" ELSE "-"]
    /\ path = [r \in Reqs |-> IF r \in FeedReqs THEN <<"/", "events-feed">> ELSE <<>>]
    /\ body = [r \in Reqs |-> "-"]
    /\ entry = [r \in Reqs |-> NoEntry]
    /\ it = [r \in Reqs |-> 0]
    /\ items_html = [r \in Reqs |-> <<>>]
    /\ resp = [r \in Reqs |-> NoResp]
    /\ appended = {}
    /\ wiped = {}
    /\ wipedAtStart = [r \in Reqs |-> {}]
    /\ lockOrder = <<>>
    /\ snapshot = [r \in Reqs |-> <<>>]

NextFeed ==
    \E r \in Reqs :
        \/ FeedAcquire(r)
        \/ FeedCopy(r)
        \/ FeedRelease(r)
        \/ FeedReturn(r)

SpecFeed == InitFeed /\ [][NextFeed]_vars

\* ================================================================ claims
\* the two URL paths the claims call suppressed: / and /clear
SuppressedPaths == {<<"/">>, <<"/", "clear">>}

\* requests whose entry was appended after the last clear
Live == appended \ wiped

\* positions of the log holding the entry of request q
PosOf(q) == {i \in 1..Len(REQUEST_LOG) : REQUEST_LOG[i].rid = q}

\* request r holds the lock: it stands between an acquire and its release
InCS(r) == pc[r] \in {"ca_append", "ca_release", "idx_loop", "clr_clear", "clr_release"}

\* request r waits for the lock
AtAcquire(r) ==
    \/ pc[r] \in {"idx_acquire", "clr_acquire"}
    \/ pc[r] = "ca_check" /\ FullPath(path[r]) \notin Excluded

\* C1: the log holds exactly one entry for every capture appended since the
\* last clear, each equal to the entry its request constructed (endpoint =
\* the request path, method = the request method), whatever the
\* interleaving; and an index that has run through the log under the lock
\* has one card per such entry.
C1_AppendMonotonic ==
    /\ Len(REQUEST_LOG) = Cardinality(Live)
    /\ \A q \in Live : Cardinality(PosOf(q)) = 1
    /\ \A i \in 1..Len(REQUEST_LOG) :
          LET e == REQUEST_LOG[i] IN
          /\ e.rid \in Live
          /\ e = entry[e.rid]
          /\ e.endpoint = path[e.rid]
          /\ e.method = method[e.rid]
          /\ e.json = ReadData(method[e.rid], body[e.rid])
    /\ \A r \in Reqs :
          (pc[r] = "idx_loop" /\ it[r] = 0) => Len(items_html[r]) = Cardinality(Live)

\* C1 witness: three captures, interleaved (the last to arrive appended
\* first), all in the log and no clear.
C1_Witness ==
    /\ Len(REQUEST_LOG) = 3
    /\ wiped = {}
    /\ REQUEST_LOG[1].rid = 3
    /\ \A r \in Reqs : pc[r] = "done"

\* C2: an index that began after a clear emptied the log sees none of the
\* entries appended before that clear, and sees nothing at all when no
\* append came after it.
C2_CleanCut ==
    \A r \in Reqs :
        pc[r] = "idx_loop" =>
            /\ \A i \in 1..Len(REQUEST_LOG) : REQUEST_LOG[i].rid \notin wipedAtStart[r]
            /\ Len(items_html[r]) <= Cardinality(appended \ wipedAtStart[r])
            /\ (appended \subseteq wipedAtStart[r]) => /\ REQUEST_LOG = <<>>
                                                       /\ items_html[r] = <<>>

\* C2 witness: a capture was appended, a clear ran, then an index began and
\* is reading the (empty) log.
C2_Witness ==
    \E r \in Reqs :
        /\ pc[r] = "idx_loop"
        /\ wipedAtStart[r] # {}
        /\ appended \subseteq wipedAtStart[r]

\* C3: at most one handler is inside a critical section on the log, and the
\* lock is locked exactly while one is.
C3_MutualExclusion ==
    /\ Cardinality({r \in Reqs : InCS(r)}) <= 1
    /\ LOG_LOCK <=> (\E r \in Reqs : InCS(r))

\* C3 witness: one handler is inside its critical section while the two
\* others wait for the lock.
C3_Witness ==
    /\ \E r \in Reqs : InCS(r)
    /\ Cardinality({r \in Reqs : AtAcquire(r)}) = 2

\* C4: an index handler that has formatted an entry no longer holds the
\* lock: the lock covers the copy only, formatting comes after the release.
C4_FormatOutsideLock ==
    \A r \in Reqs : items_html[r] # <<>> => ~InCS(r)

\* request r is taking a step
Acts(r) == pc'[r] # pc[r] \/ it'[r] # it[r]

\* C5: no step of a request to / or /clear, whatever its method and body,
\* makes the log longer.
C5_Suppression ==
    [][\A r \in Reqs :
          (Acts(r) /\ path'[r] \in SuppressedPaths /\ method'[r] \in Methods)
              => Len(REQUEST_LOG') <= Len(REQUEST_LOG)]_vars

\* C5 witness: three requests to / and /clear served by the catch-all, one
\* of them carrying a JSON body, and the log still empty.
C5_Witness ==
    /\ \A r \in Reqs : /\ pc[r] = "done"
                       /\ path[r] \in SuppressedPaths
                       /\ resp[r].type = "json"
    /\ \E r \in Reqs : path[r] = <<"/">> /\ body[r] = "{\"a\": 1}"
    /\ \E r \in Reqs : path[r] = <<"/", "clear">> /\ method[r] = "DELETE"
    /\ REQUEST_LOG = <<>>

\* a served request to a non-suppressed path has appended
C6_Captured ==
    \A r \in Reqs :
        (pc[r] = "done" /\ method[r] \in Methods /\ path[r] \notin SuppressedPaths)
            => r \in appended

\* the log grows only by one request appending once, at the end, an entry
\* with the request's path and method
C6_AppendStep ==
    /\ Len(REQUEST_LOG') > Len(REQUEST_LOG) => appended' # appended
    /\ \A r \in Reqs :
          (r \in appended' /\ r \notin appended) =>
              LET n == Len(REQUEST_LOG) IN
              /\ Len(REQUEST_LOG') = n + 1
              /\ SubSeq(REQUEST_LOG', 1, n) = REQUEST_LOG
              /\ REQUEST_LOG'[n + 1].rid = r
              /\ REQUEST_LOG'[n + 1].endpoint = path[r]
              /\ REQUEST_LOG'[n + 1].method = method[r]

\* C6: every request with one of the six methods and a path other than /
\* and /clear appends exactly one entry, at the end of the log, whose
\* endpoint is the request path and whose method is the request method.
C6_CatchAllTotal == []C6_Captured /\ [][C6_AppendStep]_vars

\* C6 witness: a GET, a PUT and an OPTIONS to /foo are all in the log.
C6_Witness ==
    /\ Len(REQUEST_LOG) = 3
    /\ {REQUEST_LOG[i].method : i \in 1..3} = {"GET", "PUT", "OPTIONS"}
    /\ \A i \in 1..3 : REQUEST_LOG[i].endpoint = <<"/", "foo">>
    /\ \A r \in Reqs : pc[r] = "done"

\* C7: when index leaves its loop, its cards are the cards of all the
\* entries of the log, each once, newest first.
C7_SnapshotOrder ==
    [][\A r \in Reqs :
          (pc[r] = "idx_loop" /\ pc'[r] = "idx_render") =>
              LET n == Len(REQUEST_LOG) IN
              /\ Len(items_html[r]) = n
              /\ \A i \in 1..n : items_html[r][i] = Card(REQUEST_LOG[n + 1 - i])]_vars

\* C7 witness: a log of three different entries A, B, C was read as C, B, A.
C7_Witness ==
    \E r \in Reqs :
        /\ pc[r] = "idx_render"
        /\ Len(REQUEST_LOG) = 3
        /\ Cardinality({Card(REQUEST_LOG[i]) : i \in 1..3}) = 3
        /\ items_html[r] = <<Card(REQUEST_LOG[3]), Card(REQUEST_LOG[2]), Card(REQUEST_LOG[1])>>

\* the acknowledgement the spec gives for path p and method m
AckFor(p, m) ==
    [code |-> 200, type |-> "json",
     content |-> [status |-> "ok", received |-> [endpoint |-> p, method |-> m]]]

\* v is an object whose keys are _error and detail
IsErrorMarker(v) ==
    /\ v.t = "obj"
    /\ {v.kv[i].k : i \in 1..Len(v.kv)} = {"_error", "detail"}

\* C8: a POST, PUT or PATCH to a non-suppressed path with a missing or
\* malformed body is served normally: one entry with the error marker as
\* its body is stored and the response is the ok acknowledgement.
C8_MalformedBody ==
    \A r \in Reqs :
        (/\ pc[r] = "done"
         /\ method[r] \in BodyMethods
         /\ path[r] \notin SuppressedPaths
         /\ body[r] \in {"", "not-json"})
        => /\ resp[r] = AckFor(path[r], method[r])
           /\ r \in appended
           /\ IsErrorMarker(entry[r].json)
           /\ r \notin wiped =>
                 /\ Cardinality(PosOf(r)) = 1
                 /\ \A i \in PosOf(r) : IsErrorMarker(REQUEST_LOG[i].json)

\* C8 witness: a POST of not-json and a PATCH without body to /foo were
\* served and their entries are in the log.
C8_Witness ==
    \E r, q \in Reqs :
        /\ pc[r] = "done" /\ method[r] = "POST" /\ body[r] = "not-json"
        /\ pc[q] = "done" /\ method[q] = "PATCH" /\ body[q] = ""
        /\ path[r] = <<"/", "foo">> /\ path[q] = <<"/", "foo">>
        /\ {r, q} \subseteq Live

\* C9 as stated: every served request, whatever its path and method, got
\* the ok acknowledgement naming its path and method.
C9_AckAlways ==
    \A r \in Reqs : pc[r] = "done" => resp[r] = AckFor(path[r], method[r])

\* GET / and POST /clear, the two requests with a handler of their own
Dedicated(r) ==
    \/ method[r] = "GET" /\ path[r] = <<"/">>
    \/ method[r] = "POST" /\ path[r] = <<"/", "clear">>

\* C9 amended: every served request other than GET / and POST /clear got
\* the ok acknowledgement naming its path and method, stored or not.
C9_AckCatchAll ==
    \A r \in Reqs :
        (pc[r] = "done" /\ ~Dedicated(r)) => resp[r] = AckFor(path[r], method[r])

\* C9 witness: acknowledged requests to /, to /clear and to /foo, the last
\* one stored and the two others not.
C9_Witness ==
    \E a, b, c \in Reqs :
        /\ pc[a] = "done" /\ path[a] = <<"/">> /\ ~Dedicated(a)
        /\ pc[b] = "done" /\ path[b] = <<"/", "clear">> /\ ~Dedicated(b)
        /\ pc[c] = "done" /\ path[c] = <<"/", "foo">>
        /\ appended = {c}
        /\ resp[a].type = "json" /\ resp[b].type = "json" /\ resp[c].type = "json"

\* C10: POST /clear runs clear_logs and never the catch-all: it builds and
\* appends no entry, the log is empty once it has cleared (until it
\* releases the lock), whatever it held before, and it answers 303.
C10_ClearDedicated ==
    \A r \in Reqs :
        (method[r] = "POST" /\ path[r] = <<"/", "clear">>) =>
            /\ pc[r] \in {"clr_acquire", "clr_clear", "clr_release", "clr_return", "done"}
            /\ r \notin appended
            /\ entry[r] = NoEntry
            /\ pc[r] = "clr_release" => (REQUEST_LOG = <<>> /\ LOG_LOCK)
            /\ pc[r] = "done" => resp[r].code = 303

\* C10 witness: the log held two entries and the only POST /clear has just
\* emptied it.
C10_Witness ==
    \E r \in Reqs :
        /\ pc[r] = "clr_release"
        /\ Cardinality(wiped) = 2
        /\ REQUEST_LOG = <<>>

\* the log after the step is the log before it, or that log with one entry
\* added at the end, or empty
C14_Step ==
    \/ REQUEST_LOG' = REQUEST_LOG
    \/ /\ Len(REQUEST_LOG') = Len(REQUEST_LOG) + 1
       /\ SubSeq(REQUEST_LOG', 1, Len(REQUEST_LOG)) = REQUEST_LOG
    \/ REQUEST_LOG' = <<>>

\* C14: every step of every handler leaves the log as it was, adds exactly
\* one entry at its end, or empties it; no entry is edited, moved or
\* removed on its own.
C14_AppendOrClearOnly == [][C14_Step]_vars

\* C14 witness: the log has been appended to, cleared, and appended to again.
C14_Witness ==
    /\ wiped # {}
    /\ Len(REQUEST_LOG) = 1
    /\ REQUEST_LOG[1].rid \notin wiped
    /\ \A r \in Reqs : pc[r] = "done"

\* position of request q in the order of lock acquisitions
LockPos(q) == CHOOSE i \in 1..Len(lockOrder) : lockOrder[i] = q

\* C15: two entries of the log stand in the order in which their requests
\* took the lock for the append, whatever the order of arrival; and a
\* capture that took the lock after the last clear is in the log.
C15_LockOrder ==
    /\ \A i, j \in 1..Len(REQUEST_LOG) :
          i < j => LockPos(REQUEST_LOG[i].rid) < LockPos(REQUEST_LOG[j].rid)
    /\ \A q \in Reqs : q \in Live => PosOf(q) # {}

\* C15 witness: request 1 arrived first, the clear of request 2 ran, request
\* 3 appended, and only then request 1 appended: the log is <<3, 1>>.
C15_Witness ==
    /\ method[2] = "POST" /\ path[2] = <<"/", "clear">> /\ pc[2] = "done"
    /\ Len(REQUEST_LOG) = 2
    /\ REQUEST_LOG[1].rid = 3
    /\ REQUEST_LOG[2].rid = 1
    /\ lockOrder = <<3, 1>>

\* C17: every entry of the log has an endpoint that starts with "/" and is
\* neither / nor /clear, one of the six methods, and a null body when the
\* method is GET, DELETE or OPTIONS.
C17_StoredEntry ==
    \A i \in 1..Len(REQUEST_LOG) :
        LET e == REQUEST_LOG[i] IN
        /\ Len(e.endpoint) >= 1
        /\ Head(e.endpoint) = "/"
        /\ e.endpoint \notin SuppressedPaths
        /\ e.method \in {"GET", "POST", "PUT", "PATCH", "DELETE", "OPTIONS"}
        /\ e.method \in {"GET", "DELETE", "OPTIONS"} => e.json = [t |-> "null"]

\* C17 witness: the log holds a DELETE, an OPTIONS and a PATCH entry, the
\* last one with an object as its body.
C17_Witness ==
    /\ Len(REQUEST_LOG) = 3
    /\ {REQUEST_LOG[i].method : i \in 1..3} = {"DELETE", "OPTIONS", "PATCH"}
    /\ \E i \in 1..3 : REQUEST_LOG[i].method = "PATCH" /\ REQUEST_LOG[i].json.t = "obj"

\* pcs of the catch-all handler
CatchAllPcs == {"ca_body", "ca_check", "ca_append", "ca_release", "ca_return", "done"}

\* C18: a step that shortens the log is a step of a POST /clear; a request
\* to /clear with another method runs the catch-all and none of its steps
\* changes the log.
C18_OnlyPostClear ==
    [][\A r \in Reqs :
          Acts(r) =>
              /\ Len(REQUEST_LOG') < Len(REQUEST_LOG)
                    => (method'[r] = "POST" /\ path'[r] = <<"/", "clear">>)
              /\ (path'[r] = <<"/", "clear">> /\ method'[r] # "POST")
                    => (REQUEST_LOG' = REQUEST_LOG /\ pc'[r] \in CatchAllPcs)]_vars

\* C18 witness: a GET /clear and a DELETE /clear were served after a capture
\* and its entry is still in the log.
C18_Witness ==
    /\ pc[1] = "done" /\ appended = {1}
    /\ wipedAtStart[2] = {} /\ wipedAtStart[3] = {}
    /\ path[2] = <<"/", "clear">> /\ method[2] = "GET" /\ pc[2] = "done"
    /\ path[3] = <<"/", "clear">> /\ method[3] = "DELETE" /\ pc[3] = "done"
    /\ Len(REQUEST_LOG) = 1

\* request r has finished reading the log for the page
HasRead(r) == pc[r] \in {"idx_render", "done"} /\ method[r] = "GET" /\ path[r] = <<"/">>

\* two index requests that both read the log hold the same cards and, once
\* served, returned the same page
C13_SameSnapshot ==
    \A r, q \in Reqs :
        (HasRead(r) /\ HasRead(q)) =>
            /\ items_html[r] = items_html[q]
            /\ (pc[r] = "done" /\ pc[q] = "done") => resp[r] = resp[q]

\* C13: no step of index changes the log, and two GET / with no append or
\* clear between them yield the same sequence of entries.
C13_SnapshotIdempotent == []C13_SameSnapshot /\ [][REQUEST_LOG' = REQUEST_LOG]_vars

\* C13 witness: two GET / were served one after the other from a log of
\* three entries, which is still there.
C13_Witness ==
    /\ pc[1] = "done" /\ pc[2] = "done"
    /\ Len(items_html[1]) = 3 /\ Len(items_html[2]) = 3
    /\ Len(REQUEST_LOG) = 3
    /\ resp[1].type = "html"

\* request r has started and has not returned
Active(r) == pc[r] \notin {"idle", "done"}

\* C16: on the event loop, whenever a handler runs while another one is in
\* progress, that other one is suspended at the await of its body: it has
\* not built its entry and does not hold the lock.  So every section that
\* holds the lock runs from acquire to release with no other handler in
\* between.
C16_NoSuspendInLock ==
    [][\A r, q \in Reqs :
          (r # q /\ Acts(q) /\ Active(r)) =>
              /\ pc[r] = "ca_body"
              /\ method[r] \in {"POST", "PUT", "PATCH"}
              /\ entry[r] = NoEntry
              /\ ~InCS(r)]_vars

\* C16 witness: a POST is suspended at the await of its body while another
\* handler holds the lock.
C16_Witness ==
    \E r, q \in Reqs :
        /\ pc[r] = "ca_body" /\ method[r] = "POST"
        /\ InCS(q) /\ LOG_LOCK

\* C19: under fair scheduling a locked lock is released again, and every
\* handler that is not waiting for its request body returns its response,
\* whatever the mix of capture, index and clear requests.
C19_Completion ==
    /\ LOG_LOCK ~> ~LOG_LOCK
    /\ \A r \in Reqs :
          (pc[r] # "done" /\ ~(pc[r] = "ca_body" /\ method[r] \in {"POST", "PUT", "PATCH"}))
              ~> (pc[r] = "done" /\ resp[r] # NoResp)

\* C19 witness: a capture, an index and a clear ran concurrently, all three
\* have returned and the lock is free.
C19_Witness ==
    /\ \A r \in Reqs : pc[r] = "done"
    /\ \E a, b, c \in Reqs :
          /\ method[a] = "GET" /\ path[a] = <<"/">>
          /\ method[b] = "POST" /\ path[b] = <<"/", "clear">>
          /\ c \in appended
    /\ ~LOG_LOCK

\* request r is a served GET /events-feed
FeedDone(r) == pc[r] = "done" /\ path[r] = <<"/", "events-feed">>

\* the events array of entry e as the claim reads it: the array under the
\* key events of an object body, nothing otherwise
C11_Contribution(e) ==
    IF /\ e.json.t = "obj"
       /\ \E i \in 1..Len(e.json.kv) : e.json.kv[i].k = "events" /\ e.json.kv[i].v.t = "arr"
    THEN (e.json.kv[CHOOSE i \in 1..Len(e.json.kv) :
                        e.json.kv[i].k = "events" /\ e.json.kv[i].v.t = "arr"]).v.xs
    ELSE <<>>

\* number of events contributed by the first i entries of the log
C11_Upto[i \in 0..Len(REQUEST_LOG)] ==
    IF i = 0 THEN 0 ELSE C11_Upto[i - 1] + Len(C11_Contribution(REQUEST_LOG[i]))

\* the members of object o as a set of key / value pairs
C11_Members(o) == {<<o.kv[i].k, o.kv[i].v>> : i \in 1..Len(o.kv)}

C12_SameFeed ==
    \A r, q \in Reqs : (FeedDone(r) /\ FeedDone(q)) => resp[r] = resp[q]

====
